---- MODULE Spec2Model ----
(***************************************************************************)
(* Technical-indicator engine of kurokishi/wr2:                            *)
(*   analysis/technical.py  TechnicalAnalyzer (compute + signal rules)     *)
(*   models/stock.py        PriceData, TechnicalIndicators, enums          *)
(*                                                                         *)
(* Numbers.  The code works on IEEE doubles through pandas.  Here a float  *)
(* is a tagged record: an exact rational n/d, NaN, +Inf, or Python's None. *)
(* Closes and volumes of the modelled series are small integers, so sums,  *)
(* means, minima and the RSI quotient are exact rationals in the code too. *)
(* The two places where the code leaves the rationals (the exponential     *)
(* smoothing of MACD and the square root of the Bollinger deviation) are   *)
(* rounded down to a grid of 1/FScale.                                     *)
(*                                                                         *)
(* Specifications.  Spec: construct an analyzer, analyze() a series,       *)
(* generate_signals() on the result.  SpecSig: generate_signals() on any   *)
(* TechnicalIndicators.  SpecFn: the indicator methods that take their     *)
(* window as an argument, called directly.  SpecRising: Spec on strictly   *)
(* increasing series.  SpecCalls: one analyzer serving analyze() calls for *)
(* several tickers in any order, with the log of what each call returned.  *)
(*                                                                         *)
(* Orchestrator.  SpecApp: the result cache of main.py WarrenAI, that is   *)
(* analyze_stock and clear_cache on one instance while the calendar day    *)
(* advances.  The collaborators analyze_stock calls in turn (data provider,*)
(* fundamental, technical and dividend analyzer, scorer, summary, signal   *)
(* rules) appear by their outcome only: all return, or one of them raises. *)
(***************************************************************************)
EXTENDS Integers, Sequences, FiniteSets, TLC

VARIABLES
    price_data,   \* what data_provider.get_historical_data returns
    analyzer,     \* the TechnicalAnalyzer object (config, rsi_period, moving_averages)
    status,       \* outcome of the last analyze(): "idle", "ok", "ValueError"
    indicators,   \* TechnicalIndicators built by _calculate_all_indicators
    result,       \* AnalysisResult.data of the last analyze()
    technical,    \* argument of the last generate_signals()
    sigStatus,    \* outcome of the last generate_signals(): "idle", "ok", "TypeError"
    signals,      \* list returned by the last generate_signals()
    call,         \* the last direct call of an indicator method: name and arguments
    returned,     \* the tuple that call returned
    provider,     \* the series the data provider holds for each ticker
    ticker,       \* argument of the last analyze(ticker)
    log,          \* history: ticker, outcome and TechnicalIndicators of every analyze()
    app,          \* the WarrenAI object: config.cache_enabled and _cache
    today,        \* the calendar day of datetime.now()
    clock,        \* analyze_stock calls so far; orders the analysis_date stamps
    appCall,      \* the last analyze_stock call: arguments, record returned, and
                  \* whether the provider and the analyzers were called
    successes     \* history: per ticker and day, the results computed successfully
                  \* since the last clear_cache, oldest first

callVars == <<provider, ticker, log>>

appVars == <<app, today, clock, appCall, successes>>

vars ==
    <<price_data, analyzer, status, indicators, result, technical, sigStatus, signals,
      call, returned, callVars, appVars>>

----------------------------------------------------------------------------
(* Bounds of the model                                                     *)

MaxPrice == 3       \* closes are drawn from 1..MaxPrice
MaxVolume == 1      \* the volume unit is drawn from 0..MaxVolume
FScale == 1000      \* grid of the rounded operations (EMA, square root)
MaxLevel == 1       \* indicator values handed to generate_signals: -MaxLevel..MaxLevel
MaxStep == 2        \* a rising series gains 1..MaxStep per session
MaxAnalyses == 3    \* analyze() calls of one behaviour of SpecCalls
MaxDay == 2         \* calendar days 1..MaxDay
MaxCalls == 4       \* analyze_stock calls of one behaviour of SpecApp

----------------------------------------------------------------------------
(* Floats                                                                  *)

Abs(x) == IF x < 0 THEN -x ELSE x

RECURSIVE GCD(_, _)
GCD(a, b) == IF b = 0 THEN a ELSE GCD(b, a % b)

Reduce(n, d, g) == [tag |-> "num", n |-> n \div g, d |-> d \div g]

\* the rational n/d (d > 0) in lowest terms
Num(n, d) == Reduce(n, d, GCD(Abs(n), d))

Int2F(i) == [tag |-> "num", n |-> i, d |-> 1]
None == [tag |-> "None", n |-> 0, d |-> 1]
NaN == [tag |-> "NaN", n |-> 0, d |-> 1]
Inf == [tag |-> "Inf", n |-> 1, d |-> 1]

IsNum(x) == x.tag = "num"
IsNone(x) == x.tag = "None"

\* bool(x) of Python: None and 0.0 are falsy, every other float (NaN too) is truthy
Truthy(x) == ~IsNone(x) /\ ~(IsNum(x) /\ x.n = 0)

\* float comparisons: anything compared with NaN is False
FLt(x, y) == IsNum(x) /\ IsNum(y) /\ x.n * y.d < y.n * x.d
FGt(x, y) == FLt(y, x)
FEq(x, y) == IsNum(x) /\ IsNum(y) /\ x.n * y.d = y.n * x.d
FLe(x, y) == FLt(x, y) \/ FEq(x, y)

FAdd(x, y) ==
    IF x.tag = "NaN" \/ y.tag = "NaN" THEN NaN
    ELSE IF x.tag = "Inf" \/ y.tag = "Inf" THEN Inf
    ELSE LET g == GCD(x.d, y.d)
         IN  Num(x.n * (y.d \div g) + y.n * (x.d \div g), (x.d \div g) * y.d)

FNeg(x) == IF IsNum(x) THEN Num(-x.n, x.d) ELSE x

\* x - y for finite y
FSub(x, y) == FAdd(x, FNeg(y))

FMul(x, y) ==
    IF x.tag = "NaN" \/ y.tag = "NaN" THEN NaN
    ELSE Num(x.n * y.n, x.d * y.d)

\* numpy division of a non-negative x: x/0 is +Inf, 0/0 is NaN, x/Inf is 0
FDiv(x, y) ==
    IF x.tag = "NaN" \/ y.tag = "NaN" THEN NaN
    ELSE IF y.tag = "Inf" THEN (IF x.tag = "Inf" THEN NaN ELSE Int2F(0))
    ELSE IF x.tag = "Inf" THEN Inf
    ELSE IF y.n = 0 THEN (IF x.n = 0 THEN NaN ELSE Inf)
    ELSE IF y.n > 0 THEN Num(x.n * y.d, x.d * y.n)
    ELSE Num(-(x.n * y.d), x.d * (-y.n))

RECURSIVE ISqrtIn(_, _, _)
ISqrtIn(n, lo, hi) ==
    IF lo >= hi THEN lo
    ELSE LET mid == (lo + hi + 1) \div 2
         IN  IF mid * mid <= n THEN ISqrtIn(n, mid, hi) ELSE ISqrtIn(n, lo, mid - 1)

\* floor of the square root of a natural number below 2^30
ISqrt(n) == ISqrtIn(n, 0, 32767)

\* square root of a non-negative rational, rounded down to the grid
FSqrt(x) ==
    IF ~IsNum(x) THEN x
    ELSE Num(ISqrt(((x.n * FScale) \div x.d) * FScale), FScale)

----------------------------------------------------------------------------
(* Sequences                                                               *)

\* lo + (hi - lo) \div 2
Mid(lo, hi) == (lo + hi) \div 2

Min2(x, y) == IF x < y THEN x ELSE y
Max2(x, y) == IF x > y THEN x ELSE y

RECURSIVE SumRange(_, _, _)
\* s[lo] + ... + s[hi]
SumRange(s, lo, hi) ==
    IF lo > hi THEN 0
    ELSE IF lo = hi THEN s[lo]
    ELSE SumRange(s, lo, Mid(lo, hi)) + SumRange(s, Mid(lo, hi) + 1, hi)

RECURSIVE MinRange(_, _, _)
\* min(s[lo], ..., s[hi]) for lo <= hi
MinRange(s, lo, hi) ==
    IF lo >= hi THEN s[lo]
    ELSE Min2(MinRange(s, lo, Mid(lo, hi)), MinRange(s, Mid(lo, hi) + 1, hi))

RECURSIVE MaxRange(_, _, _)
\* max(s[lo], ..., s[hi]) for lo <= hi
MaxRange(s, lo, hi) ==
    IF lo >= hi THEN s[lo]
    ELSE Max2(MaxRange(s, lo, Mid(lo, hi)), MaxRange(s, Mid(lo, hi) + 1, hi))

----------------------------------------------------------------------------
(* models/stock.py                                                         *)

\* PriceData (adj_close is never read by the analyzer and is left out)
PriceData(date, open, high, low, close, volume) ==
    [date |-> date, open |-> open, high |-> high, low |-> low,
     close |-> close, volume |-> volume]

\* TechnicalIndicators with every field at its default
TechnicalIndicators ==
    [ma_20 |-> None, ma_50 |-> None, ma_200 |-> None,
     rsi |-> None, rsi_signal |-> "None",
     macd |-> None, macd_signal |-> None, macd_histogram |-> None,
     stochastic_k |-> None, stochastic_d |-> None,
     bb_upper |-> None, bb_middle |-> None, bb_lower |-> None, bb_width |-> None,
     support_level |-> None, resistance_level |-> None,
     volume_avg_20 |-> None, volume_ratio |-> None,
     trend_direction |-> "None", trend_strength |-> None]

EnumFields == {"rsi_signal", "trend_direction"}

\* Enum.value of RSISignal and TrendDirection
EnumValue(e) ==
    CASE e = "OVERSOLD" -> "oversold"
      [] e = "NEUTRAL" -> "neutral"
      [] e = "OVERBOUGHT" -> "overbought"
      [] e = "STRONG_BULLISH" -> "strong_bullish"
      [] e = "BULLISH" -> "bullish"
      [] e = "SIDEWAYS" -> "sideways"
      [] e = "BEARISH" -> "bearish"
      [] e = "STRONG_BEARISH" -> "strong_bearish"
      [] OTHER -> "None"

\* TechnicalIndicators.to_dict: enums become their value strings, None fields are dropped
to_dict(ind) ==
    LET present == {k \in DOMAIN ind :
                      IF k \in EnumFields THEN ind[k] # "None" ELSE ~IsNone(ind[k])}
    IN  [k \in present |-> IF k \in EnumFields
                             THEN [tag |-> "str", s |-> EnumValue(ind[k])]
                             ELSE [tag |-> ind[k].tag, n |-> ind[k].n, d |-> ind[k].d]]

----------------------------------------------------------------------------
(* pandas primitives used by analysis/technical.py                         *)

\* df['close'] and df['volume'] of _prepare_dataframe: n values, index 1..n
Closes(data) == [i \in 1..Len(data) |-> data[i].close]
Volumes(data) == [i \in 1..Len(data) |-> data[i].volume]

\* series.rolling(window=w).mean().iloc[-1] for a series of n >= w >= 0 values;
\* an empty window (w = 0) has no observation and yields NaN
RollingMeanLast(s, n, w) == IF w = 0 THEN NaN ELSE Num(SumRange(s, n - w + 1, n), w)

\* the sample variance (ddof = 1) from the sum and the sum of squares of w values
SampleVar(w, sum, sumsq) == Num(w * sumsq - sum * sum, w * (w - 1))

\* series.rolling(window=w).std().iloc[-1] for n >= w >= 2
RollingStdLast(s, n, w) ==
    FSqrt(SampleVar(w, SumRange(s, n - w + 1, n),
                    SumRange([i \in 1..n |-> s[i] * s[i]], n - w + 1, n)))

\* rolling(window=w) raises ValueError("window must be an integer 0 or greater")
RollingRaises(w) == w < 0

\* an exponential mean with alpha = 1 / (span + 1)
EwmStepSlow(span, prev, x) == (span * prev + x) \div (span + 1)

\* one step of ewm(span, adjust=False).mean(): y = (1 - alpha) prev + alpha x with
\* alpha = 2 / (span + 1); grid units
EwmStep(span, prev, x) == ((span - 1) * prev + 2 * x) \div (span + 1)

\* series.diff() split as the code does: delta.where(delta > 0, 0) and
\* -delta.where(delta < 0, 0); the first delta is NaN and becomes 0 in both
GainSeries(s, n) ==
    [i \in 1..n |-> IF i > 1 /\ s[i] - s[i - 1] > 0 THEN s[i] - s[i - 1] ELSE 0]

LossSeries(s, n) ==
    [i \in 1..n |-> IF i > 1 /\ s[i] - s[i - 1] < 0 THEN s[i - 1] - s[i] ELSE 0]

----------------------------------------------------------------------------
(* analysis/technical.py: TechnicalAnalyzer                                *)

DefaultRsiPeriod == 14
DefaultMovingAverages == <<20, 50, 200>>
MacdMinLen == 26
BollingerPeriod == 20
BollingerStdDev == 2
SupportLookback == 50
VolumeWindow == 20
RsiOversold == 30
RsiOverbought == 70

\* dict.get(key, default) on the config dict
ConfigGet(config, key, default) == IF key \in DOMAIN config THEN config[key] ELSE default

\* __init__: self.config keeps the whole dict; only rsi_period and moving_averages
\* are read out of it, and no value is checked
NewAnalyzer(config) ==
    [constructed |-> TRUE,
     config |-> config,
     rsi_period |-> ConfigGet(config, "rsi_period", DefaultRsiPeriod),
     moving_averages |-> ConfigGet(config, "moving_averages", DefaultMovingAverages)]

EmptyConfig == [k \in {} |-> 0]

NoAnalyzer ==
    [constructed |-> FALSE, config |-> EmptyConfig, rsi_period |-> 0,
     moving_averages |-> <<>>]

\* _calculate_ma averaging whatever is there when the series is shorter than the period
_calculate_ma_partial(series, n, period) ==
    IF n >= period THEN RollingMeanLast(series, n, period) ELSE RollingMeanLast(series, n, n)

\* _calculate_ma averaging the whole series instead of its last period values
_calculate_ma_expanding(series, n, period) ==
    IF n >= period THEN RollingMeanLast(series, n, n) ELSE None

\* _calculate_ma on a series of n values
_calculate_ma(series, n, period) ==
    IF n >= period THEN RollingMeanLast(series, n, period) ELSE None

\* the loop filling ma_values: one key per configured period
MaValues(series, n, moving_averages) ==
    [p \in {moving_averages[i] : i \in 1..Len(moving_averages)} |->
        _calculate_ma(series, n, p)]

\* ma_values.get('ma_<w>')
MaGet(ma_values, w) == IF w \in DOMAIN ma_values THEN ma_values[w] ELSE None

\* the classification at the end of _calculate_rsi: (rsi, rsi_signal)
RsiClassify(current_rsi) ==
    <<current_rsi,
      IF FLt(current_rsi, Int2F(RsiOversold)) THEN "OVERSOLD"
      ELSE IF FGt(current_rsi, Int2F(RsiOverbought)) THEN "OVERBOUGHT"
      ELSE "NEUTRAL">>

\* the RSI left unavailable when there is no loss to divide by
RsiOfNoLossUnavailable(gain, loss) ==
    IF FEq(loss, Int2F(0)) THEN None
    ELSE FSub(Int2F(100), FDiv(Int2F(100), FAdd(Int2F(1), FDiv(gain, loss))))

\* rs = gain / loss; rsi = 100 - (100 / (1 + rs))
RsiOf(gain, loss) ==
    FSub(Int2F(100), FDiv(Int2F(100), FAdd(Int2F(1), FDiv(gain, loss))))

\* _calculate_rsi accepting a series of rsi_period values
_calculate_rsi_short(series, n, rsi_period) ==
    IF n < rsi_period THEN <<None, "None">>
    ELSE RsiClassify(RsiOf(RollingMeanLast(GainSeries(series, n), n, rsi_period),
                           RollingMeanLast(LossSeries(series, n), n, rsi_period)))

\* _calculate_rsi on a series of n values: (rsi, rsi_signal)
_calculate_rsi(series, n, rsi_period) ==
    IF n < rsi_period + 1 THEN <<None, "None">>
    ELSE RsiClassify(RsiOf(RollingMeanLast(GainSeries(series, n), n, rsi_period),
                           RollingMeanLast(LossSeries(series, n), n, rsi_period)))

\* exp12, exp26, macd_line = exp12 - exp26 and signal_line = macd_line.ewm(span=9)
\* advanced by the close x; st = (exp12, exp26, signal_line), grid units
MacdStep(st, x) ==
    LET exp12 == EwmStep(12, st[1], x)
        exp26 == EwmStep(26, st[2], x)
    IN  <<exp12, exp26, EwmStep(9, st[3], exp12 - exp26)>>

\* TRUE; the model checker evaluates operator arguments on demand, and a test on v
\* makes it compute v first, which keeps the evaluation stack of a long series shallow
Computed(v) == v = v

RECURSIVE MacdRange(_, _, _, _)
\* st advanced by the closes series[lo..hi]
MacdRange(series, lo, hi, st) ==
    IF lo > hi THEN st
    ELSE IF lo = hi THEN MacdStep(st, series[lo] * FScale)
    ELSE LET left == MacdRange(series, lo, Mid(lo, hi), st)
         IN  IF Computed(left) THEN MacdRange(series, Mid(lo, hi) + 1, hi, left) ELSE left

\* the last values of macd_line, signal_line and histogram = macd_line - signal_line
MacdLast(st) ==
    <<Num(st[1] - st[2], FScale),
      Num(st[3], FScale),
      Num((st[1] - st[2]) - st[3], FScale)>>

\* _calculate_macd on a series of n values: (macd, signal, histogram); every ewm
\* starts at its first input, so exp12 = exp26 = close[1] and signal_line = 0 there
_calculate_macd(series, n) ==
    IF n < MacdMinLen THEN <<None, None, None>>
    ELSE MacdLast(MacdRange(series, 2, n, <<series[1] * FScale, series[1] * FScale, 0>>))

\* bands whose lower one is the middle itself
BandsOneSided(middle, band) == <<FAdd(middle, band), middle, middle>>

\* the bands with the band width added below and subtracted above the middle
BandsSwapped(middle, band) == <<FSub(middle, band), middle, FAdd(middle, band)>>

\* upper = middle + std * std_dev, lower = middle - std * std_dev
Bands(middle, band) == <<FAdd(middle, band), middle, FSub(middle, band)>>

\* _calculate_bollinger_bands on a series of n values: (upper, middle, lower)
_calculate_bollinger_bands(series, n, period, std_dev) ==
    IF n < period THEN <<None, None, None>>
    ELSE Bands(RollingMeanLast(series, n, period),
               FMul(RollingStdLast(series, n, period), Int2F(std_dev)))

\* _calculate_support_resistance over the whole series, whatever the lookback
_calculate_support_resistance_all(closes, n, lookback) ==
    <<Int2F(MinRange(closes, 1, n)), Int2F(MaxRange(closes, 1, n))>>

\* _calculate_support_resistance over the lookback sessions before the latest one
_calculate_support_resistance_previous(closes, n, lookback) ==
    IF n = 1 THEN <<Int2F(closes[1]), Int2F(closes[1])>>
    ELSE <<Int2F(MinRange(closes, Max2(1, n - lookback), n - 1)),
           Int2F(MaxRange(closes, Max2(1, n - lookback), n - 1))>>

\* _calculate_support_resistance on n closes: (support, resistance)
_calculate_support_resistance(closes, n, lookback) ==
    IF n < lookback
    THEN <<Int2F(MinRange(closes, 1, n)), Int2F(MaxRange(closes, 1, n))>>
    ELSE <<Int2F(MinRange(closes, n - lookback + 1, n)),
           Int2F(MaxRange(closes, n - lookback + 1, n))>>

\* _calculate_volume_indicators averaging whatever is there below 20 points
_calculate_volume_partial(volume, n) ==
    IF n >= VolumeWindow THEN RollingMeanLast(volume, n, VolumeWindow)
    ELSE RollingMeanLast(volume, n, n)

\* _calculate_volume_indicators
_calculate_volume_indicators(volume, n) ==
    IF n >= VolumeWindow THEN RollingMeanLast(volume, n, VolumeWindow) ELSE None

\* _determine_trend with the weaker alignment tested before the strong chain
TrendOfWeakFirst(current_price, ma20, ma50, ma200) ==
    LET ma_aligned_up == FGt(ma20, ma50) /\ FGt(ma50, ma200)
        ma_aligned_down == FLt(ma20, ma50) /\ FLt(ma50, ma200)
        price_above_all == FGt(current_price, ma20) /\ FGt(ma20, ma50) /\ FGt(ma50, ma200)
        price_below_all == FLt(current_price, ma20) /\ FLt(ma20, ma50) /\ FLt(ma50, ma200)
    IN  IF ~(Truthy(ma20) /\ Truthy(ma50) /\ Truthy(ma200)) THEN <<"None", None>>
        ELSE IF ma_aligned_up THEN <<"BULLISH", Int2F(70)>>
        ELSE IF price_above_all /\ ma_aligned_up THEN <<"STRONG_BULLISH", Int2F(90)>>
        ELSE IF ma_aligned_down THEN <<"BEARISH", Int2F(70)>>
        ELSE IF price_below_all /\ ma_aligned_down THEN <<"STRONG_BEARISH", Int2F(90)>>
        ELSE <<"SIDEWAYS", Int2F(50)>>

\* _determine_trend asking for ma20 and ma50 only
TrendOfTwoMas(current_price, ma20, ma50, ma200) ==
    LET ma_aligned_up == FGt(ma20, ma50) /\ FGt(ma50, ma200)
        ma_aligned_down == FLt(ma20, ma50) /\ FLt(ma50, ma200)
        price_above_all == FGt(current_price, ma20) /\ FGt(ma20, ma50) /\ FGt(ma50, ma200)
        price_below_all == FLt(current_price, ma20) /\ FLt(ma20, ma50) /\ FLt(ma50, ma200)
    IN  IF ~(Truthy(ma20) /\ Truthy(ma50)) THEN <<"None", None>>
        ELSE IF price_above_all /\ ma_aligned_up THEN <<"STRONG_BULLISH", Int2F(90)>>
        ELSE IF ma_aligned_up THEN <<"BULLISH", Int2F(70)>>
        ELSE IF price_below_all /\ ma_aligned_down THEN <<"STRONG_BEARISH", Int2F(90)>>
        ELSE IF ma_aligned_down THEN <<"BEARISH", Int2F(70)>>
        ELSE <<"SIDEWAYS", Int2F(50)>>

\* _determine_trend comparing with >= and <=
TrendOfNonStrict(current_price, ma20, ma50, ma200) ==
    LET ma_aligned_up == FLe(ma50, ma20) /\ FLe(ma200, ma50)
        ma_aligned_down == FLe(ma20, ma50) /\ FLe(ma50, ma200)
        price_above_all == FLe(ma20, current_price) /\ FLe(ma50, ma20) /\ FLe(ma200, ma50)
        price_below_all == FLe(current_price, ma20) /\ FLe(ma20, ma50) /\ FLe(ma50, ma200)
    IN  IF ~(Truthy(ma20) /\ Truthy(ma50) /\ Truthy(ma200)) THEN <<"None", None>>
        ELSE IF price_above_all /\ ma_aligned_up THEN <<"STRONG_BULLISH", Int2F(90)>>
        ELSE IF ma_aligned_up THEN <<"BULLISH", Int2F(70)>>
        ELSE IF price_below_all /\ ma_aligned_down THEN <<"STRONG_BEARISH", Int2F(90)>>
        ELSE IF ma_aligned_down THEN <<"BEARISH", Int2F(70)>>
        ELSE <<"SIDEWAYS", Int2F(50)>>

\* the body of _determine_trend: (trend_direction, trend_strength)
TrendOf(current_price, ma20, ma50, ma200) ==
    LET ma_aligned_up == FGt(ma20, ma50) /\ FGt(ma50, ma200)
        ma_aligned_down == FLt(ma20, ma50) /\ FLt(ma50, ma200)
        price_above_all == FGt(current_price, ma20) /\ FGt(ma20, ma50) /\ FGt(ma50, ma200)
        price_below_all == FLt(current_price, ma20) /\ FLt(ma20, ma50) /\ FLt(ma50, ma200)
    IN  IF ~(Truthy(ma20) /\ Truthy(ma50) /\ Truthy(ma200)) THEN <<"None", None>>
        ELSE IF price_above_all /\ ma_aligned_up THEN <<"STRONG_BULLISH", Int2F(90)>>
        ELSE IF ma_aligned_up THEN <<"BULLISH", Int2F(70)>>
        ELSE IF price_below_all /\ ma_aligned_down THEN <<"STRONG_BEARISH", Int2F(90)>>
        ELSE IF ma_aligned_down THEN <<"BEARISH", Int2F(70)>>
        ELSE <<"SIDEWAYS", Int2F(50)>>

\* _determine_trend: the lookups of ma_values and of the latest close
_determine_trend(prices, n, ma_values) ==
    TrendOf(Int2F(prices[n]),
            MaGet(ma_values, 20), MaGet(ma_values, 50), MaGet(ma_values, 200))

\* _calculate_all_indicators raises when a rolling window is negative
CalculateRaises(an) ==
    \/ \E i \in 1..Len(an.moving_averages) : RollingRaises(an.moving_averages[i])
    \/ RollingRaises(an.rsi_period)

\* the TechnicalIndicators(...) constructor call that ends _calculate_all_indicators
BuildIndicators(ma_values, r, m, bb, sr, volume_avg, trend, last_volume) ==
        [TechnicalIndicators EXCEPT
            !.ma_20 = MaGet(ma_values, 20),
            !.ma_50 = MaGet(ma_values, 50),
            !.ma_200 = MaGet(ma_values, 200),
            !.rsi = r[1],
            !.rsi_signal = r[2],
            !.macd = m[1],
            !.macd_signal = m[2],
            !.macd_histogram = m[3],
            !.bb_upper = bb[1],
            !.bb_middle = bb[2],
            !.bb_lower = bb[3],
            !.bb_width = IF Truthy(bb[2]) THEN FDiv(FSub(bb[1], bb[3]), bb[2]) ELSE None,
            !.support_level = sr[1],
            !.resistance_level = sr[2],
            !.volume_avg_20 = volume_avg,
            !.volume_ratio = IF Truthy(volume_avg)
                             THEN FDiv(Int2F(last_volume), volume_avg)
                             ELSE None,
            !.trend_direction = trend[1],
            !.trend_strength = trend[2]]

\* the indicator calls of _calculate_all_indicators, in the order of the code; the
\* Bollinger and the support/resistance call pass no period, std_dev or lookback, so
\* the defaults of the signatures apply
IndicatorsOf(an, close, volume, n, ma_values) ==
    BuildIndicators(ma_values,
                    _calculate_rsi(close, n, an.rsi_period),
                    _calculate_macd(close, n),
                    _calculate_bollinger_bands(close, n, BollingerPeriod, BollingerStdDev),
                    _calculate_support_resistance(close, n, SupportLookback),
                    _calculate_volume_indicators(volume, n),
                    _determine_trend(close, n, ma_values),
                    volume[n])

\* _calculate_all_indicators
_calculate_all_indicators(an, data) ==
    IndicatorsOf(an, Closes(data), Volumes(data), Len(data),
                 MaValues(Closes(data), Len(data), an.moving_averages))

\* one entry of the list generate_signals returns
Signal(type, indicator, strength, message) ==
    [type |-> type, indicator |-> indicator, strength |-> strength, message |-> message]

\* the RSI rule selling on OVERSOLD and buying on OVERBOUGHT
RsiSignalsSwapped(t) ==
    IF t.rsi_signal = "OVERBOUGHT"
    THEN <<Signal("BUY", "RSI", "MEDIUM", "RSI menunjukkan kondisi oversold, potential reversal")>>
    ELSE IF t.rsi_signal = "OVERSOLD"
    THEN <<Signal("SELL", "RSI", "MEDIUM", "RSI overbought, hati-hati koreksi")>>
    ELSE <<>>

\* the RSI rule
RsiSignals(t) ==
    IF t.rsi_signal = "OVERSOLD"
    THEN <<Signal("BUY", "RSI", "MEDIUM", "RSI menunjukkan kondisi oversold, potential reversal")>>
    ELSE IF t.rsi_signal = "OVERBOUGHT"
    THEN <<Signal("SELL", "RSI", "MEDIUM", "RSI overbought, hati-hati koreksi")>>
    ELSE <<>>

\* the MACD rule compares macd_histogram with 0 without testing it for None
MacdRaises(t) ==
    /\ Truthy(t.macd) /\ Truthy(t.macd_signal)
    /\ IsNone(t.macd_histogram)
    /\ (FGt(t.macd, t.macd_signal) \/ FLt(t.macd, t.macd_signal))

\* the MACD rule
MacdSignals(t) ==
    IF Truthy(t.macd) /\ Truthy(t.macd_signal)
    THEN IF FGt(t.macd, t.macd_signal) /\ FGt(t.macd_histogram, Int2F(0))
         THEN <<Signal("BUY", "MACD", "WEAK", "MACD bullish crossover")>>
         ELSE IF FLt(t.macd, t.macd_signal) /\ FLt(t.macd_histogram, Int2F(0))
         THEN <<Signal("SELL", "MACD", "WEAK", "MACD bearish crossover")>>
         ELSE <<>>
    ELSE <<>>

\* the trend rule firing on the plain BULLISH and BEARISH trends too
TrendSignalsWeak(t) ==
    IF t.trend_direction \in {"STRONG_BULLISH", "BULLISH"}
    THEN <<Signal("BUY", "TREND", "STRONG", "Trend bullish kuat, semua moving average aligned")>>
    ELSE IF t.trend_direction \in {"STRONG_BEARISH", "BEARISH"}
    THEN <<Signal("SELL", "TREND", "STRONG", "Trend bearish kuat, hati-hati")>>
    ELSE <<>>

\* the trend rule
TrendSignals(t) ==
    IF t.trend_direction = "STRONG_BULLISH"
    THEN <<Signal("BUY", "TREND", "STRONG", "Trend bullish kuat, semua moving average aligned")>>
    ELSE IF t.trend_direction = "STRONG_BEARISH"
    THEN <<Signal("SELL", "TREND", "STRONG", "Trend bearish kuat, hati-hati")>>
    ELSE <<>>

\* the support rule announcing a break of the support as a SELL
SupportSignalsSell(t) ==
    IF Truthy(t.support_level)
    THEN <<Signal("SELL", "SUPPORT", "MEDIUM", "Mendekati support level, potential bounce")>>
    ELSE <<>>

\* the support rule: current_price is the support level itself
SupportSignals(t) ==
    LET current_price == t.support_level
    IN  IF Truthy(current_price) /\ Truthy(t.support_level)
        THEN LET distance_to_support ==
                     FMul(FDiv(FSub(current_price, t.support_level), t.support_level),
                          Int2F(100))
             IN  IF FLt(distance_to_support, Int2F(2))
                 THEN <<Signal("BUY", "SUPPORT", "MEDIUM",
                               "Mendekati support level, potential bounce")>>
                 ELSE <<>>
        ELSE <<>>

\* generate_signals with the four rules chained by elif: the first rule that fires
\* ends the evaluation
generate_signals_elif(t) ==
    IF MacdRaises(t) THEN [status |-> "TypeError", signals |-> <<>>]
    ELSE [status |-> "ok",
          signals |-> IF RsiSignals(t) # <<>> THEN RsiSignals(t)
                      ELSE IF MacdSignals(t) # <<>> THEN MacdSignals(t)
                      ELSE IF TrendSignals(t) # <<>> THEN TrendSignals(t)
                      ELSE SupportSignals(t)]

\* generate_signals: the outcome and the list returned
generate_signals(t) ==
    IF MacdRaises(t) THEN [status |-> "TypeError", signals |-> <<>>]
    ELSE [status |-> "ok",
          signals |-> RsiSignals(t) \o MacdSignals(t) \o TrendSignals(t) \o SupportSignals(t)]

----------------------------------------------------------------------------
(* Inputs                                                                  *)

\* series lengths around the minimum lengths of the indicators
Lengths == {0, 1, 2, 3, 10, 15, 20, 26, 50, 199, 200}

Prices == 1..MaxPrice

\* the closes older than 50 sessions sit at the bottom or at the top of the range
OldPrices == {1, MaxPrice}

\* n sessions on consecutive days: the last close is t2, the one before t1, the
\* rest of the last 50 closes are b and every older close is a; the concatenation
\* makes the value a list of n records
ShapeSeries(n, a, b, t1, t2, vol) ==
    <<>> \o [i \in 1..n |->
        LET k == n - i
            c == IF k = 0 THEN t2 ELSE IF k = 1 THEN t1
                 ELSE IF k < 50 THEN b ELSE a
        IN  PriceData(i, c, c, c, c, vol * (1 + (i % 2)))]

DefectKinds == {"duplicate_date", "unsorted_date", "negative_price", "ohlc"}

\* s with its last point made invalid
Defect(s, kind) ==
    LET n == Len(s)
        p == s[n]
    IN  [s EXCEPT ![n] =
            CASE kind = "duplicate_date" -> [p EXCEPT !.date = s[n - 1].date]
              [] kind = "unsorted_date" -> [p EXCEPT !.date = s[n - 1].date - 1]
              [] kind = "negative_price" ->
                    [p EXCEPT !.open = -p.open, !.high = -p.high,
                              !.low = -p.low, !.close = -p.close]
              [] OTHER -> [p EXCEPT !.low = p.close + 1]]

\* the invariants of PricePoint and PriceSeries
ValidSeries(s) ==
    /\ Len(s) > 0
    /\ \A i \in 1..Len(s) :
          /\ s[i].open > 0 /\ s[i].high > 0 /\ s[i].low > 0 /\ s[i].close > 0
          /\ s[i].low <= s[i].open /\ s[i].open <= s[i].high
          /\ s[i].low <= s[i].close /\ s[i].close <= s[i].high
          /\ s[i].volume >= 0
          /\ i > 1 => s[i - 1].date < s[i].date

ValidInputs ==
    {ShapeSeries(x[1], x[2], x[3], x[4], x[5], 1) :
        x \in (Lengths \ {0}) \X OldPrices \X Prices \X Prices \X Prices}

VolumeInputs ==
    {ShapeSeries(x[1], 1, 1, 1, x[2], x[3]) :
        x \in (Lengths \ {0}) \X Prices \X (0..MaxVolume)}

InvalidInputs ==
    {Defect(ShapeSeries(x[1], 1, 1, 1, x[2], 1), x[3]) :
        x \in (Lengths \ {0, 1}) \X Prices \X DefectKinds}

SeriesInputs == {<<>>} \cup ValidInputs \cup VolumeInputs \cup InvalidInputs

\* config dicts handed to the constructor
ConfigInputs ==
    {EmptyConfig,
     [rsi_period |-> 2],
     [moving_averages |-> <<10, 20>>],
     [bollinger_period |-> 10, bollinger_std_multiplier |-> 1],
     [support_resistance_lookback |-> 2, volume_average_window |-> 10],
     [rsi_period |-> 0],
     [rsi_period |-> -1],
     [moving_averages |-> <<20, 50, 200, -5>>]}

----------------------------------------------------------------------------
(* The state machine                                                       *)

\* no indicator method has been called directly
NoCall == [fn |-> "none", args |-> <<>>]

NoResult ==
    [technical |-> [k \in {} |-> None], latest_price |-> None,
     indicators_calculated |-> FALSE]

Tickers == {"BBCA", "TLKM"}

\* no analyze(ticker) has been called
NoCalls ==
    /\ provider = [t \in Tickers |-> <<>>]
    /\ ticker = "none"
    /\ log = <<>>

Days == 1..MaxDay

\* the (ticker, calendar day) pairs
Keys == Tickers \X Days

EmptyCache == [k \in {} |-> 0]

\* WarrenAI(config): self.config = config, self._cache = {}
NewWarrenAI(cache_enabled) == [cache_enabled |-> cache_enabled, _cache |-> EmptyCache]

NoAppCall ==
    [ticker |-> "none", use_cache |-> TRUE, fetched |-> FALSE,
     returned |-> [kind |-> "none", ticker |-> "none", error |-> "none",
                   analysis_date |-> <<0, 0>>]]

\* no orchestrator in use
NoApp ==
    /\ app = NewWarrenAI(TRUE)
    /\ today = 1
    /\ clock = 0
    /\ appCall = NoAppCall
    /\ successes = [k \in Keys |-> <<>>]

Init ==
    /\ price_data \in SeriesInputs
    /\ analyzer = NoAnalyzer
    /\ status = "idle"
    /\ indicators = TechnicalIndicators
    /\ result = NoResult
    /\ technical = TechnicalIndicators
    /\ sigStatus = "idle"
    /\ signals = <<>>
    /\ call = NoCall
    /\ returned = <<>>
    /\ NoCalls
    /\ NoApp

\* TechnicalAnalyzer(data_provider, config)
Construct(config) ==
    /\ ~analyzer.constructed
    /\ analyzer' = NewAnalyzer(config)
    /\ UNCHANGED <<price_data, status, indicators, result, technical, sigStatus, signals,
                   call, returned, callVars, appVars>>

\* analyzer.analyze(ticker)
Analyze ==
    /\ analyzer.constructed
    /\ IF Len(price_data) = 0 \/ CalculateRaises(analyzer)
       THEN /\ status' = "ValueError"
            /\ indicators' = TechnicalIndicators
            /\ result' = NoResult
       ELSE /\ status' = "ok"
            /\ indicators' = _calculate_all_indicators(analyzer, price_data)
            /\ result' = [technical |-> to_dict(indicators'),
                          latest_price |-> Int2F(price_data[Len(price_data)].close),
                          indicators_calculated |-> TRUE]
    /\ UNCHANGED <<price_data, analyzer, technical, sigStatus, signals, call, returned,
                   callVars, appVars>>

\* analyzer.generate_signals(t)
GenerateSignalsOn(t) ==
    /\ technical' = t
    /\ sigStatus' = generate_signals(t).status
    /\ signals' = generate_signals(t).signals
    /\ UNCHANGED <<price_data, analyzer, status, indicators, result, call, returned,
                   callVars, appVars>>

\* generate_signals on the indicators analyze() has computed
GenerateSignals ==
    /\ analyzer.constructed
    /\ status = "ok"
    /\ GenerateSignalsOn(indicators)

Next ==
    \/ \E config \in ConfigInputs : Construct(config)
    \/ Analyze
    \/ GenerateSignals

Spec == Init /\ [][Next]_vars

----------------------------------------------------------------------------
(* analyze() and generate_signals on rising series: every close above the one  *)
(* before it                                                               *)

RisingLengths == {200, 300}

\* n closes from start upwards: step more every session and burst more every 50th
RisingSeries(n, start, step, burst) ==
    <<>> \o [i \in 1..n |->
        LET c == start + step * (i - 1) + burst * (i \div 50)
        IN  PriceData(i, c, c, c, c, 1)]

RisingInputs ==
    {RisingSeries(x[1], x[2], x[3], x[4]) :
        x \in RisingLengths \X Prices \X (1..MaxStep) \X {0, 1}}

InitRising ==
    /\ price_data \in RisingInputs
    /\ analyzer = NoAnalyzer
    /\ status = "idle"
    /\ indicators = TechnicalIndicators
    /\ result = NoResult
    /\ technical = TechnicalIndicators
    /\ sigStatus = "idle"
    /\ signals = <<>>
    /\ call = NoCall
    /\ returned = <<>>
    /\ NoCalls
    /\ NoApp

SpecRising == InitRising /\ [][Next]_vars

----------------------------------------------------------------------------
(* One analyzer, several tickers: analyze(ticker) in any order, each call      *)
(* fetching the ticker's series from the data provider                      *)

CallLengths == {3, 15}

\* the series the provider may hold for a ticker; the empty list is "no data"
CallSeries ==
    {<<>>} \cup {ShapeSeries(x[1], 1, 1, x[2], x[3], 1) :
                    x \in CallLengths \X OldPrices \X Prices}

CallConfigs == {EmptyConfig, [rsi_period |-> 2]}

\* analyze() that lowers self.rsi_period to fit the series at hand and keeps it
AnalyzerAfterAnalyzeFitted(an, data) ==
    [an EXCEPT !.rsi_period = Min2(an.rsi_period, Max2(Len(data) - 1, 1))]

\* self after analyze(): analyze, _prepare_dataframe and the _calculate methods read
\* self.config, self.rsi_period and self.moving_averages and assign none of them
AnalyzerAfterAnalyze(an, data) == an

\* a _prepare_dataframe that takes the points off the caller's list
SeriesAfterAnalyzeConsumed(data) == IF data = <<>> THEN data ELSE Tail(data)

\* the caller's list after analyze(): _prepare_dataframe copies every point into a
\* new dict and leaves the list as it was
SeriesAfterAnalyze(data) == data

InitCalls ==
    /\ price_data = <<>>
    /\ analyzer = NoAnalyzer
    /\ status = "idle"
    /\ indicators = TechnicalIndicators
    /\ result = NoResult
    /\ technical = TechnicalIndicators
    /\ sigStatus = "idle"
    /\ signals = <<>>
    /\ call = NoCall
    /\ returned = <<>>
    /\ provider \in [Tickers -> CallSeries]
    /\ ticker = "none"
    /\ log = <<>>
    /\ NoApp

\* analyzer.analyze(t): the series is fetched from the provider, then analysed
AnalyzeTicker(t) ==
    /\ analyzer.constructed
    /\ Len(log) < MaxAnalyses
    /\ ticker' = t
    /\ price_data' = provider[t]
    /\ IF Len(provider[t]) = 0 \/ CalculateRaises(analyzer)
       THEN /\ status' = "ValueError"
            /\ indicators' = TechnicalIndicators
            /\ result' = NoResult
       ELSE /\ status' = "ok"
            /\ indicators' = _calculate_all_indicators(analyzer, provider[t])
            /\ result' = [technical |-> to_dict(indicators'),
                          latest_price |-> Int2F(provider[t][Len(provider[t])].close),
                          indicators_calculated |-> TRUE]
    /\ provider' = [provider EXCEPT ![t] = SeriesAfterAnalyze(provider[t])]
    /\ analyzer' = AnalyzerAfterAnalyze(analyzer, provider[t])
    /\ log' = Append(log, [ticker |-> t, status |-> status', indicators |-> indicators'])
    /\ UNCHANGED <<technical, sigStatus, signals, call, returned, appVars>>

NextCalls ==
    \/ \E config \in CallConfigs : Construct(config)
    \/ \E t \in Tickers : AnalyzeTicker(t)
    \/ GenerateSignals

SpecCalls == InitCalls /\ [][NextCalls]_vars

----------------------------------------------------------------------------
(* generate_signals on its own: any TechnicalIndicators, every field           *)
(* independently present or absent                                          *)

FloatInputs == {None} \cup {Int2F(i) : i \in (-MaxLevel)..MaxLevel}

LevelInputs == {None} \cup {Int2F(i) : i \in 0..MaxLevel}

RsiSignalInputs == {"None", "OVERSOLD", "NEUTRAL", "OVERBOUGHT"}

TrendInputs ==
    {"None", "STRONG_BULLISH", "BULLISH", "SIDEWAYS", "BEARISH", "STRONG_BEARISH"}

IndicatorInputs ==
    {[TechnicalIndicators EXCEPT
         !.rsi_signal = x[1], !.macd = x[2], !.macd_signal = x[3],
         !.macd_histogram = x[4], !.trend_direction = x[5], !.support_level = x[6]] :
        x \in RsiSignalInputs \X FloatInputs \X FloatInputs \X FloatInputs
                \X TrendInputs \X LevelInputs}

InitSig ==
    /\ price_data = <<>>
    /\ analyzer = NewAnalyzer(EmptyConfig)
    /\ status = "idle"
    /\ indicators = TechnicalIndicators
    /\ result = NoResult
    /\ technical \in IndicatorInputs
    /\ sigStatus = "idle"
    /\ signals = <<>>
    /\ call = NoCall
    /\ returned = <<>>
    /\ NoCalls
    /\ NoApp

\* analyzer.generate_signals(technical) on the caller's TechnicalIndicators
CallGenerateSignals ==
    /\ sigStatus = "idle"
    /\ GenerateSignalsOn(technical)

NextSig == CallGenerateSignals

SpecSig == InitSig /\ [][NextSig]_vars

----------------------------------------------------------------------------
(* The indicator methods on their own: _calculate_ma, _calculate_bollinger_bands  *)
(* and _calculate_support_resistance take the window as an argument            *)

\* periods, multipliers and lookbacks the methods are called with
MaPeriods == {1, 2, 20, 50, 200}
BollingerPeriods == {2, 20}
BollingerStdDevs == {1, 2}
Lookbacks == {1, 2, 50}

\* the valid series, and those one session longer than the longest window
FnInputs ==
    ValidInputs
      \cup {ShapeSeries(201, x[1], x[2], x[3], x[4], 1) :
                x \in OldPrices \X Prices \X Prices \X Prices}

InitFn ==
    /\ price_data \in FnInputs
    /\ analyzer = NewAnalyzer(EmptyConfig)
    /\ status = "idle"
    /\ indicators = TechnicalIndicators
    /\ result = NoResult
    /\ technical = TechnicalIndicators
    /\ sigStatus = "idle"
    /\ signals = <<>>
    /\ call = NoCall
    /\ returned = <<>>
    /\ NoCalls
    /\ NoApp

\* fn(df['close'], args) has returned ret
Returns(fn, args, ret) ==
    /\ call' = [fn |-> fn, args |-> args]
    /\ returned' = ret
    /\ UNCHANGED <<price_data, analyzer, status, indicators, result, technical,
                   sigStatus, signals, callVars, appVars>>

\* analyzer._calculate_ma(df['close'], period)
CallMa(period) ==
    /\ call.fn = "none"
    /\ Returns("_calculate_ma", <<period>>,
               <<_calculate_ma(Closes(price_data), Len(price_data), period)>>)

\* analyzer._calculate_bollinger_bands(df['close'], period, std_dev)
CallBollinger(period, std_dev) ==
    /\ call.fn = "none"
    /\ Returns("_calculate_bollinger_bands", <<period, std_dev>>,
               _calculate_bollinger_bands(Closes(price_data), Len(price_data),
                                          period, std_dev))

\* analyzer._calculate_support_resistance(df, lookback)
CallSupportResistance(lookback) ==
    /\ call.fn = "none"
    /\ Returns("_calculate_support_resistance", <<lookback>>,
               _calculate_support_resistance(Closes(price_data), Len(price_data),
                                             lookback))

NextFn ==
    \/ \E period \in MaPeriods : CallMa(period)
    \/ \E period \in BollingerPeriods, std_dev \in BollingerStdDevs :
          CallBollinger(period, std_dev)
    \/ \E lookback \in Lookbacks : CallSupportResistance(lookback)

SpecFn == InitFn /\ [][NextFn]_vars

----------------------------------------------------------------------------
(* main.py: WarrenAI.analyze_stock and clear_cache                         *)

\* the calls of the try block of analyze_stock, in the order of the code
Steps ==
    <<"data_provider.get_stock_metadata", "data_provider.get_current_price",
      "fundamental_analyzer.analyze", "technical_analyzer.analyze",
      "dividend_analyzer.analyze", "scorer.calculate_score", "_generate_ai_summary",
      "technical_analyzer.generate_signals">>

\* what the collaborators do in one analyze_stock: 0 when every step returns, k when
\* step k raises
StepOutcomes == 0..Len(Steps)

\* the cache key without the date
cache_key_ticker(t, day) == <<t, 0>>

\* cache_key = f"{ticker}_{datetime.now().strftime('%Y%m%d')}"
cache_key(t, day) == <<t, day>>

\* use_cache and self.config.cache_enabled and cache_key in self._cache
CacheHit(a, use_cache, key) == use_cache /\ a.cache_enabled /\ key \in DOMAIN a._cache

\* the result dict built when every step has returned
ResultRecord(t, day, stamp) ==
    [kind |-> "result", ticker |-> t, error |-> "none", analysis_date |-> <<day, stamp>>]

\* the dict returned by the except branch: 'error', 'ticker', 'analysis_date'
ErrorRecord(t, step, day, stamp) ==
    [kind |-> "error", ticker |-> t, error |-> step, analysis_date |-> <<day, stamp>>]

\* if self.config.cache_enabled: self._cache[cache_key] = result
CacheStore(a, key, res) ==
    IF a.cache_enabled
    THEN [a EXCEPT !._cache = [k \in DOMAIN a._cache \cup {key} |->
                                  IF k = key THEN res ELSE a._cache[k]]]
    ELSE a

\* an except branch that keeps the error record under the key
CacheAfterErrorStored(a, key, rec) == CacheStore(a, key, rec)

\* self after the except branch: the record is returned and nothing is stored
CacheAfterError(a, key, rec) == a

InitApp ==
    /\ price_data = <<>>
    /\ analyzer = NoAnalyzer
    /\ status = "idle"
    /\ indicators = TechnicalIndicators
    /\ result = NoResult
    /\ technical = TechnicalIndicators
    /\ sigStatus = "idle"
    /\ signals = <<>>
    /\ call = NoCall
    /\ returned = <<>>
    /\ NoCalls
    /\ app \in {NewWarrenAI(cache_enabled) : cache_enabled \in BOOLEAN}
    /\ today = 1
    /\ clock = 0
    /\ appCall = NoAppCall
    /\ successes = [k \in Keys |-> <<>>]

\* app.analyze_stock(t, use_cache) while the collaborators behave as raising says
AnalyzeStock(t, use_cache, raising) ==
    /\ clock < MaxCalls
    /\ clock' = clock + 1
    /\ LET key == cache_key(t, today)
       IN  IF CacheHit(app, use_cache, key)
           THEN /\ appCall' = [ticker |-> t, use_cache |-> use_cache, fetched |-> FALSE,
                               returned |-> app._cache[key]]
                /\ UNCHANGED <<app, successes>>
           ELSE IF raising = 0
           THEN LET res == ResultRecord(t, today, clock')
                IN  /\ appCall' = [ticker |-> t, use_cache |-> use_cache,
                                   fetched |-> TRUE, returned |-> res]
                    /\ app' = CacheStore(app, key, res)
                    /\ successes' = [successes EXCEPT ![<<t, today>>] = Append(@, res)]
           ELSE LET rec == ErrorRecord(t, Steps[raising], today, clock')
                IN  /\ appCall' = [ticker |-> t, use_cache |-> use_cache,
                                   fetched |-> TRUE, returned |-> rec]
                    /\ app' = CacheAfterError(app, key, rec)
                    /\ UNCHANGED successes
    /\ UNCHANGED <<price_data, analyzer, status, indicators, result, technical,
                   sigStatus, signals, call, returned, callVars, today>>

\* app.clear_cache()
ClearCache ==
    /\ app' = [app EXCEPT !._cache = EmptyCache]
    /\ successes' = [k \in Keys |-> <<>>]
    /\ UNCHANGED <<price_data, analyzer, status, indicators, result, technical,
                   sigStatus, signals, call, returned, callVars, today, clock, appCall>>

\* the date of datetime.now() moves on to the next day
Midnight ==
    /\ today < MaxDay
    /\ today' = today + 1
    /\ UNCHANGED <<price_data, analyzer, status, indicators, result, technical,
                   sigStatus, signals, call, returned, callVars, app, clock, appCall,
                   successes>>

NextApp ==
    \/ \E t \in Tickers, use_cache \in BOOLEAN, raising \in StepOutcomes :
          AnalyzeStock(t, use_cache, raising)
    \/ ClearCache
    \/ Midnight

SpecApp == InitApp /\ [][NextApp]_vars

----------------------------------------------------------------------------
(* Properties                                                              *)

LastClose == Int2F(price_data[Len(price_data)].close)

HasSignal(type, indicator, strength) ==
    \E i \in 1..Len(signals) :
        /\ signals[i].type = type
        /\ signals[i].indicator = indicator
        /\ signals[i].strength = strength

HasIndicator(indicator) == \E i \in 1..Len(signals) : signals[i].indicator = indicator

\* every configured period is a positive integer
ValidConfig(an) ==
    /\ an.rsi_period >= 1
    /\ \A i \in 1..Len(an.moving_averages) : an.moving_averages[i] >= 1

\* analyze() has returned an IndicatorSet for a series and a configuration that
\* satisfy the data model
Computed_ok == status = "ok" /\ ValidSeries(price_data) /\ ValidConfig(analyzer)

AllMasAvailable ==
    IsNum(indicators.ma_20) /\ IsNum(indicators.ma_50) /\ IsNum(indicators.ma_200)

TrendIs(direction, strength) ==
    indicators.trend_direction = direction /\ indicators.trend_strength = Int2F(strength)

ChainUp(p, m20, m50, m200) == FGt(p, m20) /\ FGt(m20, m50) /\ FGt(m50, m200)
ChainDown(p, m20, m50, m200) == FLt(p, m20) /\ FLt(m20, m50) /\ FLt(m50, m200)
AlignedUp(m20, m50, m200) == FGt(m20, m50) /\ FGt(m50, m200)
AlignedDown(m20, m50, m200) == FLt(m20, m50) /\ FLt(m50, m200)

\* C1: when ma20, ma50 and ma200 are all available and p is the latest close, the
\* trend is STRONG_BULLISH/90 exactly when p > ma20 > ma50 > ma200, BULLISH/70
\* exactly when ma20 > ma50 > ma200 and not p > ma20, STRONG_BEARISH/90 exactly when
\* p < ma20 < ma50 < ma200, BEARISH/70 exactly when ma20 < ma50 < ma200 and not
\* p < ma20, and SIDEWAYS/50 in every other case
C1_TrendClassification ==
    (Computed_ok /\ AllMasAvailable) =>
        LET p == LastClose
            m20 == indicators.ma_20
            m50 == indicators.ma_50
            m200 == indicators.ma_200
            sb == ChainUp(p, m20, m50, m200)
            b == AlignedUp(m20, m50, m200) /\ ~FGt(p, m20)
            sd == ChainDown(p, m20, m50, m200)
            d == AlignedDown(m20, m50, m200) /\ ~FLt(p, m20)
        IN  /\ TrendIs("STRONG_BULLISH", 90) <=> sb
            /\ TrendIs("BULLISH", 70) <=> b
            /\ TrendIs("STRONG_BEARISH", 90) <=> sd
            /\ TrendIs("BEARISH", 70) <=> d
            /\ TrendIs("SIDEWAYS", 50) <=> ~(sb \/ b \/ sd \/ d)
            /\ indicators.trend_direction = "BULLISH" => ~sb
            /\ indicators.trend_direction = "BEARISH" => ~sd

\* a series whose averages meet both the STRONG_BULLISH and the BULLISH condition
\* has been classified
C1_Witness ==
    /\ Computed_ok /\ AllMasAvailable
    /\ ChainUp(LastClose, indicators.ma_20, indicators.ma_50, indicators.ma_200)
    /\ indicators.trend_direction = "STRONG_BULLISH"

\* generate_signals has returned a list for a TechnicalIndicators whose three MACD
\* fields are numbers
MacdPresent ==
    /\ sigStatus = "ok"
    /\ IsNum(technical.macd) /\ IsNum(technical.macd_signal)
    /\ IsNum(technical.macd_histogram)

\* C2: when macd and macd_signal are present (the value 0 included), generate_signals
\* emits BUY/WEAK MACD when macd > macd_signal and macd_histogram > 0, SELL/WEAK MACD
\* when macd < macd_signal and macd_histogram < 0, and no MACD signal otherwise; when
\* macd or macd_signal is absent it emits no MACD signal
C2_MacdRule ==
    /\ MacdPresent =>
          /\ HasSignal("BUY", "MACD", "WEAK") <=>
                (FGt(technical.macd, technical.macd_signal)
                    /\ FGt(technical.macd_histogram, Int2F(0)))
          /\ HasSignal("SELL", "MACD", "WEAK") <=>
                (FLt(technical.macd, technical.macd_signal)
                    /\ FLt(technical.macd_histogram, Int2F(0)))
    /\ (sigStatus = "ok" /\ (IsNone(technical.macd) \/ IsNone(technical.macd_signal)))
          => ~HasIndicator("MACD")

\* generate_signals has run on the indicators analyze() computed for the series
SignalsOfSeries == Computed_ok /\ sigStatus = "ok" /\ technical = indicators

\* the latest close is less than 2% above the support level
WithinTwoPercent(price, support) ==
    /\ FLe(support, price)
    /\ FLt(FMul(FDiv(FSub(price, support), support), Int2F(100)), Int2F(2))

\* C3: generate_signals emits the BUY/MEDIUM SUPPORT signal if and only if a support
\* level is present and the latest close is within 2% above it
C3_SupportProximity ==
    SignalsOfSeries =>
        (HasSignal("BUY", "SUPPORT", "MEDIUM") <=>
            (IsNum(indicators.support_level)
                /\ WithinTwoPercent(LastClose, indicators.support_level)))

\* all closes of the series are equal
FlatSeries(s) == \A i \in 1..Len(s) : s[i].close = s[1].close

\* C4: for a flat series of at least rsi_period + 1 closes (average gain and average
\* loss both zero) the RSI is reported unavailable: rsi and rsi_signal are absent
C4_FlatRsiUnavailable ==
    (Computed_ok /\ FlatSeries(price_data)
        /\ Len(price_data) >= analyzer.rsi_period + 1) =>
        (IsNone(indicators.rsi) /\ indicators.rsi_signal = "None")

\* C5: a returned RSI lies in [0, 100]; rsi_signal is OVERSOLD exactly when rsi < 30,
\* OVERBOUGHT exactly when rsi > 70 and NEUTRAL otherwise (30 and 70 are NEUTRAL)
C5_RsiRange ==
    (Computed_ok /\ ~IsNone(indicators.rsi)) =>
        /\ FLe(Int2F(0), indicators.rsi) /\ FLe(indicators.rsi, Int2F(100))
        /\ indicators.rsi_signal = "OVERSOLD" <=> FLt(indicators.rsi, Int2F(30))
        /\ indicators.rsi_signal = "OVERBOUGHT" <=> FGt(indicators.rsi, Int2F(70))
        /\ indicators.rsi_signal = "NEUTRAL" <=>
              (FLe(Int2F(30), indicators.rsi) /\ FLe(indicators.rsi, Int2F(70)))

\* C6: generate_signals returns a list for every TechnicalIndicators, whichever fields
\* are absent, and a MACD rule whose inputs are not all present emits nothing
C6_NeverFails ==
    sigStatus # "idle" =>
        /\ sigStatus = "ok"
        /\ (IsNone(technical.macd) \/ IsNone(technical.macd_signal)
              \/ IsNone(technical.macd_histogram)) => ~HasIndicator("MACD")

\* C7: analyze() returns an IndicatorSet only for a valid series: not for an empty
\* one, nor one with duplicate or non-monotonic dates, a negative price, or a point
\* violating low <= open, close <= high
C7_InvalidSeriesRejected == status = "ok" => ValidSeries(price_data)

MaOf(ind, w) == IF w = 20 THEN ind.ma_20 ELSE IF w = 50 THEN ind.ma_50 ELSE ind.ma_200

AllAbsentButLevels(ind) ==
    /\ IsNone(ind.rsi) /\ ind.rsi_signal = "None"
    /\ IsNone(ind.macd) /\ IsNone(ind.macd_signal) /\ IsNone(ind.macd_histogram)
    /\ IsNone(ind.ma_20) /\ IsNone(ind.ma_50) /\ IsNone(ind.ma_200)
    /\ IsNone(ind.bb_upper) /\ IsNone(ind.bb_middle) /\ IsNone(ind.bb_lower)
    /\ IsNone(ind.bb_width)
    /\ IsNone(ind.volume_avg_20) /\ IsNone(ind.volume_ratio)
    /\ ind.trend_direction = "None" /\ IsNone(ind.trend_strength)

\* x is the least close of the series
IsMinClose(x) ==
    /\ \E i \in 1..Len(price_data) : x = Int2F(price_data[i].close)
    /\ \A i \in 1..Len(price_data) : FLe(x, Int2F(price_data[i].close))

\* x is the greatest close of the series
IsMaxClose(x) ==
    /\ \E i \in 1..Len(price_data) : x = Int2F(price_data[i].close)
    /\ \A i \in 1..Len(price_data) : FLe(Int2F(price_data[i].close), x)

\* C8: for every valid series of length >= 1 analyze() returns an IndicatorSet, and
\* each indicator whose minimum length is not met is absent; for 10 points with
\* rsi_period 14 everything but support and resistance is absent, and these are the
\* least and the greatest of the 10 closes
C8_InsufficientHistory ==
    (analyzer.constructed /\ status # "idle"
        /\ ValidSeries(price_data) /\ ValidConfig(analyzer)) =>
        LET n == Len(price_data)
        IN  /\ status = "ok"
            /\ n < analyzer.rsi_period + 1 =>
                  (IsNone(indicators.rsi) /\ indicators.rsi_signal = "None")
            /\ n < 26 =>
                  /\ IsNone(indicators.macd) /\ IsNone(indicators.macd_signal)
                  /\ IsNone(indicators.macd_histogram)
            /\ \A w \in {20, 50, 200} : n < w => IsNone(MaOf(indicators, w))
            /\ n < 20 =>
                  /\ IsNone(indicators.bb_upper) /\ IsNone(indicators.bb_middle)
                  /\ IsNone(indicators.bb_lower) /\ IsNone(indicators.bb_width)
                  /\ IsNone(indicators.volume_avg_20) /\ IsNone(indicators.volume_ratio)
            /\ n < 200 =>
                  (indicators.trend_direction = "None" /\ IsNone(indicators.trend_strength))
            /\ IsNum(indicators.support_level) /\ IsNum(indicators.resistance_level)
            /\ (n = 10 /\ analyzer.rsi_period = 14) =>
                  /\ AllAbsentButLevels(indicators)
                  /\ IsMinClose(indicators.support_level)
                  /\ IsMaxClose(indicators.resistance_level)

\* analyze() has returned for 10 valid points under rsi_period = 14
C8_Witness ==
    /\ Computed_ok
    /\ Len(price_data) = 10
    /\ analyzer.rsi_period = 14
    /\ indicators.support_level # indicators.resistance_level

\* C9: an analyzer is never constructed with an out-of-range configuration value
\* (rsi_period <= 0, a zero or negative moving-average window)
C9_ConfigRejected == analyzer.constructed => ValidConfig(analyzer)

\* the IndicatorSet has a moving-average entry for the windows 20, 50 and 200 only
HasMaEntry(w) == w \in {20, 50, 200}

\* the simple moving average of the last w closes
SmaOfCloses(w) ==
    Num(SumRange(Closes(price_data), Len(price_data) - w + 1, Len(price_data)), w)

\* C10: for every configured moving-average window w the IndicatorSet has an entry
\* for w: the simple moving average of the last w closes when the series has at
\* least w points, absent otherwise
C10_EveryWindowReported ==
    Computed_ok =>
        \A i \in 1..Len(analyzer.moving_averages) :
            LET w == analyzer.moving_averages[i]
            IN  /\ HasMaEntry(w)
                /\ Len(price_data) >= w => MaOf(indicators, w) = SmaOfCloses(w)
                /\ Len(price_data) < w => IsNone(MaOf(indicators, w))

\* the option key of the analyzer's configuration, or its default when it is missing
Option(key, default) == ConfigGet(analyzer.config, key, default)

\* C11: analyze() uses the configured bollinger_period, bollinger_std_multiplier,
\* support_resistance_lookback and volume_average_window when they are given and
\* the defaults 20, 2, 50 and 20 when they are missing: the bands, the levels and
\* the volume average are those of the configured windows
C11_ConfigOptionsUsed ==
    Computed_ok =>
        LET n == Len(price_data)
            close == Closes(price_data)
            period == Option("bollinger_period", BollingerPeriod)
            k == Option("bollinger_std_multiplier", BollingerStdDev)
            lookback == Option("support_resistance_lookback", SupportLookback)
            window == Option("volume_average_window", VolumeWindow)
        IN  /\ n < period => IsNone(indicators.bb_middle)
            /\ n >= period =>
                  /\ indicators.bb_middle = SmaOfCloses(period)
                  /\ FSub(indicators.bb_upper, indicators.bb_lower)
                        = FMul(Int2F(2 * k), RollingStdLast(close, n, period))
            /\ indicators.support_level = Int2F(MinRange(close, Max2(1, n - lookback + 1), n))
            /\ indicators.resistance_level
                  = Int2F(MaxRange(close, Max2(1, n - lookback + 1), n))
            /\ n < window => IsNone(indicators.volume_avg_20)
            /\ n >= window =>
                  indicators.volume_avg_20
                    = Num(SumRange(Volumes(price_data), n - window + 1, n), window)

RECURSIVE CloseTotal(_, _, _)
\* the sum of the closes lo..hi, counted value by value for the values 1..v
CloseTotal(lo, hi, v) ==
    IF v = 0 THEN 0
    ELSE v * Cardinality({i \in lo..hi : price_data[i].close = v})
           + CloseTotal(lo, hi, v - 1)

\* the mean of the last w closes of the series
MeanOfLastCloses(w) ==
    Num(CloseTotal(Len(price_data) - w + 1, Len(price_data), MaxPrice), w)

\* C12: _calculate_ma(series, window) returns None for every series shorter than the
\* window, and the mean of exactly the last window values for every other series
C12_SimpleMovingAverage ==
    call.fn = "_calculate_ma" =>
        LET w == call.args[1]
        IN  /\ Len(price_data) < w => IsNone(returned[1])
            /\ Len(price_data) >= w => returned[1] = MeanOfLastCloses(w)

\* _calculate_ma has returned the mean of the last 20 of 50 closes, which is not the
\* mean of all 50
C12_Witness ==
    /\ call.fn = "_calculate_ma" /\ call.args[1] = 20
    /\ Len(price_data) = 50
    /\ returned[1] = MeanOfLastCloses(20)
    /\ returned[1] # MeanOfLastCloses(50)

\* C13: trend_direction and trend_strength are both present when ma20, ma50 and
\* ma200 are all available, both absent when one of them is unavailable, and never
\* present one without the other
C13_TrendNeedsAllMas ==
    Computed_ok =>
        /\ AllMasAvailable <=> indicators.trend_direction # "None"
        /\ indicators.trend_direction # "None" <=> ~IsNone(indicators.trend_strength)

\* analyze() has set the trend for a series with exactly 200 closes, the shortest
\* one with all three averages
C13_Witness ==
    /\ Computed_ok /\ Len(price_data) = 200
    /\ AllMasAvailable
    /\ indicators.trend_direction # "None" /\ IsNum(indicators.trend_strength)

\* C14: when all three averages are available and ma20 = ma50 or ma50 = ma200, the
\* trend is SIDEWAYS with strength 50 whatever the latest close is
C14_TieBreak ==
    (Computed_ok /\ AllMasAvailable
        /\ (FEq(indicators.ma_20, indicators.ma_50)
              \/ FEq(indicators.ma_50, indicators.ma_200))) =>
        TrendIs("SIDEWAYS", 50)

\* ma20 = ma50 > ma200 with the latest close above all three: SIDEWAYS
C14_Witness ==
    /\ Computed_ok /\ AllMasAvailable
    /\ FEq(indicators.ma_20, indicators.ma_50)
    /\ FGt(indicators.ma_50, indicators.ma_200)
    /\ FGt(LastClose, indicators.ma_20)
    /\ TrendIs("SIDEWAYS", 50)

\* every close but the latest equals the first one
AllButLastEqual ==
    \A i \in 1..(Len(price_data) - 1) : price_data[i].close = price_data[1].close

\* the latest close minus the first one
StepHeight == price_data[Len(price_data)].close - price_data[1].close

\* x is num/den up to the rounding of the grid
Near(x, num, den) ==
    /\ IsNum(x)
    /\ FLe(FSub(x, Num(num, den)), Num(2, FScale))
    /\ FLe(Num(-2, FScale), FSub(x, Num(num, den)))

\* C15: with fewer than 26 closes macd, macd_signal and macd_histogram are absent;
\* with at least 26 all three are present and macd_histogram = macd - macd_signal
\* exactly, where macd = EMA12 - EMA26 and macd_signal = EMA9 of the macd line, each
\* EMA seeded with its first value and using alpha = 2/(span + 1): after a constant
\* history c and one close c + h, EMA12 = c + 2h/13 and EMA26 = c + 2h/27, so
\* macd = 28h/351 and macd_signal = macd/5 (all three 0 for a flat series)
C15_Macd ==
    Computed_ok =>
        /\ Len(price_data) < 26 =>
              /\ IsNone(indicators.macd) /\ IsNone(indicators.macd_signal)
              /\ IsNone(indicators.macd_histogram)
        /\ Len(price_data) >= 26 =>
              /\ IsNum(indicators.macd) /\ IsNum(indicators.macd_signal)
              /\ IsNum(indicators.macd_histogram)
              /\ indicators.macd_histogram
                    = FSub(indicators.macd, indicators.macd_signal)
              /\ AllButLastEqual =>
                    /\ Near(indicators.macd, 28 * StepHeight, 351)
                    /\ Near(indicators.macd_signal, 28 * StepHeight, 1755)
              /\ FlatSeries(price_data) =>
                    /\ indicators.macd = Int2F(0) /\ indicators.macd_signal = Int2F(0)
                    /\ indicators.macd_histogram = Int2F(0)

\* the MACD of exactly 26 closes whose latest one rises above a constant history
C15_Witness ==
    /\ Computed_ok /\ Len(price_data) = 26
    /\ AllButLastEqual /\ StepHeight > 0
    /\ FGt(indicators.macd, indicators.macd_signal)
    /\ FGt(indicators.macd_histogram, Int2F(0))

\* C16: with the period and the multiplier k that _calculate_bollinger_bands is
\* called with (20 and 2): for a series of at least period closes bb_middle is the
\* mean of the last period closes and bb_upper - bb_lower = 2 k rolling_std of those
\* closes; for a flat series bb_upper = bb_middle = bb_lower; for a shorter series the
\* three bands and bb_width are absent
C16_Bollinger ==
    Computed_ok =>
        LET n == Len(price_data)
            period == BollingerPeriod
            k == BollingerStdDev
        IN  /\ n < period =>
                  /\ IsNone(indicators.bb_upper) /\ IsNone(indicators.bb_middle)
                  /\ IsNone(indicators.bb_lower) /\ IsNone(indicators.bb_width)
            /\ n >= period =>
                  /\ indicators.bb_middle = MeanOfLastCloses(period)
                  /\ IsNum(indicators.bb_upper) /\ IsNum(indicators.bb_lower)
                  /\ FSub(indicators.bb_upper, indicators.bb_lower)
                        = FMul(Int2F(2 * k), RollingStdLast(Closes(price_data), n, period))
                  /\ FlatSeries(price_data) =>
                        /\ indicators.bb_upper = indicators.bb_middle
                        /\ indicators.bb_lower = indicators.bb_middle

\* bands of a series whose last 20 closes are not all equal
C16_Witness ==
    /\ Computed_ok /\ Len(price_data) >= BollingerPeriod
    /\ FGt(indicators.bb_upper, indicators.bb_middle)
    /\ FGt(indicators.bb_middle, indicators.bb_lower)
    /\ indicators.bb_middle = MeanOfLastCloses(BollingerPeriod)

RECURSIVE GainTotal(_)
\* the sum of the rises close[j] - close[j-1] > 0 for j in 2..i
GainTotal(i) ==
    IF i < 2 THEN 0
    ELSE GainTotal(i - 1)
           + Max2(price_data[i].close - price_data[i - 1].close, 0)

RECURSIVE LossTotal(_)
\* the sum of the falls close[j-1] - close[j] > 0 for j in 2..i
LossTotal(i) ==
    IF i < 2 THEN 0
    ELSE LossTotal(i - 1)
           + Max2(price_data[i - 1].close - price_data[i].close, 0)

\* C17: with at most rsi_period closes rsi and rsi_signal are absent; with exactly
\* rsi_period + 1 closes the RSI is computed from the rsi_period price deltas:
\* RS = average gain / average loss and RSI = 100 - 100/(1 + RS), which is
\* 100 gain / (gain + loss), and 100 when there is no loss
C17_RsiMinLength ==
    Computed_ok =>
        LET n == Len(price_data)
            gain == GainTotal(n)
            loss == LossTotal(n)
        IN  /\ n <= analyzer.rsi_period =>
                  (IsNone(indicators.rsi) /\ indicators.rsi_signal = "None")
            /\ (n = analyzer.rsi_period + 1 /\ gain + loss > 0) =>
                  indicators.rsi = Num(100 * gain, gain + loss)

\* the RSI of 15 closes with rsi_period 14, after a rise and a fall
C17_Witness ==
    /\ Computed_ok /\ analyzer.rsi_period = 14 /\ Len(price_data) = 15
    /\ GainTotal(15) > 0 /\ LossTotal(15) > 0
    /\ indicators.rsi = Num(100 * GainTotal(15), GainTotal(15) + LossTotal(15))

\* the closes of the trailing lookback sessions, or of all sessions when the series
\* is shorter
TrailingCloses(lookback) ==
    {price_data[i].close :
        i \in Max2(1, Len(price_data) - lookback + 1)..Len(price_data)}

\* C18: for every non-empty series _calculate_support_resistance returns two
\* numbers, the minimum and the maximum of the trailing lookback closes (of all
\* closes when the series is shorter than the lookback)
C18_SupportResistance ==
    call.fn = "_calculate_support_resistance" =>
        LET window == TrailingCloses(call.args[1])
        IN  /\ Len(returned) = 2
            /\ IsNum(returned[1]) /\ IsNum(returned[2])
            /\ \E c \in window :
                  returned[1] = Int2F(c) /\ \A d \in window : c <= d
            /\ \E c \in window :
                  returned[2] = Int2F(c) /\ \A d \in window : d <= c

\* the levels of the last 2 of 10 closes, with a lower close before them
C18_Witness ==
    /\ call.fn = "_calculate_support_resistance" /\ call.args[1] = 2
    /\ Len(price_data) = 10
    /\ \E i \in 1..8 : FLt(Int2F(price_data[i].close), returned[1])
    /\ FLt(returned[1], returned[2])

RECURSIVE VolumeTotal(_, _, _)
\* the sum of the volumes lo..hi, counted value by value for the values 1..v
VolumeTotal(lo, hi, v) ==
    IF v = 0 THEN 0
    ELSE v * Cardinality({i \in lo..hi : price_data[i].volume = v})
           + VolumeTotal(lo, hi, v - 1)

\* the sum of the last 20 volumes
Last20Volumes ==
    VolumeTotal(Len(price_data) - 19, Len(price_data), 2 * MaxVolume)

\* C19: volume_avg_20 is the mean of the last 20 volumes when the series has at
\* least 20 points and absent otherwise; volume_ratio is the latest volume divided
\* by volume_avg_20 when that average is available and nonzero, and absent when the
\* average is absent or zero
C19_Volume ==
    Computed_ok =>
        LET n == Len(price_data)
        IN  /\ n < 20 =>
                  (IsNone(indicators.volume_avg_20) /\ IsNone(indicators.volume_ratio))
            /\ n >= 20 =>
                  /\ indicators.volume_avg_20 = Num(Last20Volumes, 20)
                  /\ Last20Volumes > 0 =>
                        indicators.volume_ratio
                          = Num(20 * price_data[n].volume, Last20Volumes)
                  /\ Last20Volumes = 0 => IsNone(indicators.volume_ratio)

\* 20 or more sessions without any trade: the average is 0 and the ratio is absent
C19_Witness ==
    /\ Computed_ok /\ Len(price_data) >= 20
    /\ indicators.volume_avg_20 = Int2F(0)
    /\ IsNone(indicators.volume_ratio)

\* the number of signals of the returned list that name the indicator
CountIndicator(indicator) ==
    Cardinality({i \in 1..Len(signals) : signals[i].indicator = indicator})

\* C20: the list generate_signals returns holds exactly one RSI signal, BUY/MEDIUM,
\* when rsi_signal is OVERSOLD; exactly one RSI signal, SELL/MEDIUM, when rsi_signal
\* is OVERBOUGHT; and no RSI signal when rsi_signal is NEUTRAL or absent
C20_RsiSignalRule ==
    sigStatus = "ok" =>
        /\ technical.rsi_signal = "OVERSOLD" =>
              (CountIndicator("RSI") = 1 /\ HasSignal("BUY", "RSI", "MEDIUM"))
        /\ technical.rsi_signal = "OVERBOUGHT" =>
              (CountIndicator("RSI") = 1 /\ HasSignal("SELL", "RSI", "MEDIUM"))
        /\ technical.rsi_signal \in {"NEUTRAL", "None"} => CountIndicator("RSI") = 0

\* an OVERSOLD IndicatorSet has produced its BUY/MEDIUM RSI signal, first in a list
\* that holds another rule's signal too
C20_Witness ==
    /\ sigStatus = "ok" /\ technical.rsi_signal = "OVERSOLD"
    /\ Len(signals) >= 2
    /\ signals[1].indicator = "RSI" /\ signals[1].type = "BUY"
    /\ signals[1].strength = "MEDIUM"

\* C21: the list generate_signals returns holds a BUY/STRONG TREND signal exactly
\* when trend_direction is STRONG_BULLISH and a SELL/STRONG TREND signal exactly when
\* it is STRONG_BEARISH; BULLISH, BEARISH, SIDEWAYS and an unset trend give no TREND
\* signal
C21_TrendSignalRule ==
    sigStatus = "ok" =>
        /\ HasSignal("BUY", "TREND", "STRONG")
              <=> technical.trend_direction = "STRONG_BULLISH"
        /\ HasSignal("SELL", "TREND", "STRONG")
              <=> technical.trend_direction = "STRONG_BEARISH"
        /\ technical.trend_direction \in {"BULLISH", "BEARISH", "SIDEWAYS", "None"}
              => ~HasIndicator("TREND")
        /\ CountIndicator("TREND") <= 1

\* a STRONG_BEARISH IndicatorSet has produced its SELL/STRONG TREND signal and no
\* other TREND signal
C21_Witness ==
    /\ sigStatus = "ok" /\ technical.trend_direction = "STRONG_BEARISH"
    /\ HasSignal("SELL", "TREND", "STRONG")
    /\ CountIndicator("TREND") = 1

\* the place of a rule in the order of evaluation
RuleRank(indicator) ==
    CASE indicator = "RSI" -> 1
      [] indicator = "MACD" -> 2
      [] indicator = "TREND" -> 3
      [] OTHER -> 4

\* the signals of the returned list that name the indicator
SignalsOf(indicator) == SelectSeq(signals, LAMBDA sg : sg.indicator = indicator)

\* the indicator set that carries nothing but the fields the rule of the indicator
\* reads
OnlyInputsOf(indicator) ==
    CASE indicator = "RSI" ->
            [TechnicalIndicators EXCEPT !.rsi_signal = technical.rsi_signal]
      [] indicator = "MACD" ->
            [TechnicalIndicators EXCEPT !.macd = technical.macd,
                                        !.macd_signal = technical.macd_signal,
                                        !.macd_histogram = technical.macd_histogram]
      [] indicator = "TREND" ->
            [TechnicalIndicators EXCEPT !.trend_direction = technical.trend_direction]
      [] OTHER ->
            [TechnicalIndicators EXCEPT !.support_level = technical.support_level]

\* C22: in every list generate_signals returns the signals stand in the order RSI,
\* MACD, TREND, SUPPORT; each rule contributes exactly what it contributes when its
\* own inputs are the only fields present, so no rule's signal suppresses another's;
\* rsi_signal = OVERSOLD with trend_direction = STRONG_BEARISH gives both the
\* BUY/MEDIUM RSI signal and the SELL/STRONG TREND signal in the same list
C22_RuleOrderIndependence ==
    sigStatus = "ok" =>
        /\ \A i, j \in 1..Len(signals) :
              i < j => RuleRank(signals[i].indicator) < RuleRank(signals[j].indicator)
        /\ \A indicator \in {"RSI", "MACD", "TREND", "SUPPORT"} :
              SignalsOf(indicator) = generate_signals(OnlyInputsOf(indicator)).signals
        /\ (technical.rsi_signal = "OVERSOLD"
              /\ technical.trend_direction = "STRONG_BEARISH") =>
              (HasSignal("BUY", "RSI", "MEDIUM") /\ HasSignal("SELL", "TREND", "STRONG"))

\* the conflicting pair of scenario D in one list, with a MACD signal between them
C22_Witness ==
    /\ sigStatus = "ok"
    /\ technical.rsi_signal = "OVERSOLD" /\ technical.trend_direction = "STRONG_BEARISH"
    /\ Len(signals) >= 3
    /\ signals[1].indicator = "RSI" /\ signals[1].type = "BUY"
    /\ signals[2].indicator = "MACD"
    /\ signals[3].indicator = "TREND" /\ signals[3].type = "SELL"

\* C30: a list generate_signals returns holds at most one signal for each of RSI,
\* MACD, TREND and SUPPORT, hence at most four signals and never a BUY and a SELL of
\* the same indicator; it names no other indicator, and a SUPPORT signal is never a
\* SELL
C30_SignalListShape ==
    sigStatus = "ok" =>
        /\ \A indicator \in {"RSI", "MACD", "TREND", "SUPPORT"} :
              CountIndicator(indicator) <= 1
        /\ \A i \in 1..Len(signals) :
              signals[i].indicator \in {"RSI", "MACD", "TREND", "SUPPORT"}
        /\ Len(signals) <= 4
        /\ \A i, j \in 1..Len(signals) :
              signals[i].indicator = signals[j].indicator
                  => signals[i].type = signals[j].type
        /\ \A i \in 1..Len(signals) :
              signals[i].indicator = "SUPPORT" => signals[i].type # "SELL"

\* a list of four signals, one of each indicator, in which RSI, MACD and TREND all
\* sell and SUPPORT buys
C30_Witness ==
    /\ sigStatus = "ok" /\ Len(signals) = 4
    /\ \A indicator \in {"RSI", "MACD", "TREND"} :
          \E i \in 1..4 : signals[i].indicator = indicator /\ signals[i].type = "SELL"
    /\ \E i \in 1..4 : signals[i].indicator = "SUPPORT" /\ signals[i].type = "BUY"

\* C28: for every non-empty series and every lookback >= 1 the levels
\* _calculate_support_resistance returns satisfy support_level <= latest close <=
\* resistance_level, hence support_level <= resistance_level
C28_LevelsEncloseLatestClose ==
    (call.fn = "_calculate_support_resistance" /\ call.args[1] >= 1) =>
        /\ FLe(returned[1], LastClose)
        /\ FLe(LastClose, returned[2])
        /\ FLe(returned[1], returned[2])

\* the latest close is itself the lowest close of the trailing window and lies
\* strictly below the one before it
C28_Witness ==
    /\ call.fn = "_calculate_support_resistance" /\ call.args[1] = 2
    /\ Len(price_data) >= 2
    /\ returned[1] = LastClose
    /\ FLt(LastClose, returned[2])
    /\ price_data[Len(price_data)].close < price_data[Len(price_data) - 1].close

\* C29: whenever the Bollinger bands are available, bb_lower <= bb_middle <=
\* bb_upper and bb_upper - bb_middle = bb_middle - bb_lower; bb_width is present
\* exactly when bb_middle is present and nonzero, and is then non-negative and equal
\* to (bb_upper - bb_lower) / bb_middle
C29_BandOrder ==
    Computed_ok =>
        /\ (IsNum(indicators.bb_upper) /\ IsNum(indicators.bb_middle)
              /\ IsNum(indicators.bb_lower)) =>
              /\ FLe(indicators.bb_lower, indicators.bb_middle)
              /\ FLe(indicators.bb_middle, indicators.bb_upper)
              /\ FSub(indicators.bb_upper, indicators.bb_middle)
                    = FSub(indicators.bb_middle, indicators.bb_lower)
        /\ IsNum(indicators.bb_width)
              <=> (IsNum(indicators.bb_middle) /\ ~FEq(indicators.bb_middle, Int2F(0)))
        /\ IsNum(indicators.bb_width) =>
              /\ FLe(Int2F(0), indicators.bb_width)
              /\ FMul(indicators.bb_width, indicators.bb_middle)
                    = FSub(indicators.bb_upper, indicators.bb_lower)

\* bands strictly apart around the middle, with a positive width
C29_Witness ==
    /\ Computed_ok
    /\ IsNum(indicators.bb_upper) /\ IsNum(indicators.bb_lower)
    /\ FLt(indicators.bb_lower, indicators.bb_middle)
    /\ FLt(indicators.bb_middle, indicators.bb_upper)
    /\ FGt(indicators.bb_width, Int2F(0))

StrictlyIncreasing(s) == \A i \in 2..Len(s) : s[i - 1].close < s[i].close

\* the windows 20, 50 and 200 are among the configured moving averages
TrendWindowsConfigured ==
    \A w \in {20, 50, 200} :
        \E i \in 1..Len(analyzer.moving_averages) : analyzer.moving_averages[i] = w

\* C25: for every strictly increasing close series of at least 200 points analyze()
\* yields ma20 > ma50 > ma200 with the latest close above all three, the trend
\* STRONG_BULLISH with strength 90, and an RSI above 70 classified OVERBOUGHT;
\* generate_signals on that result returns a list with a SELL/MEDIUM RSI signal and
\* a BUY/STRONG TREND signal
C25_ScenarioRising ==
    (Computed_ok /\ StrictlyIncreasing(price_data) /\ Len(price_data) >= 200
        /\ TrendWindowsConfigured) =>
        /\ AllMasAvailable
        /\ AlignedUp(indicators.ma_20, indicators.ma_50, indicators.ma_200)
        /\ FGt(LastClose, indicators.ma_20)
        /\ FGt(LastClose, indicators.ma_50)
        /\ FGt(LastClose, indicators.ma_200)
        /\ TrendIs("STRONG_BULLISH", 90)
        /\ IsNum(indicators.rsi) /\ FGt(indicators.rsi, Int2F(RsiOverbought))
        /\ indicators.rsi_signal = "OVERBOUGHT"
        /\ sigStatus # "idle" =>
              /\ sigStatus = "ok"
              /\ technical = indicators
              /\ HasSignal("SELL", "RSI", "MEDIUM")
              /\ HasSignal("BUY", "TREND", "STRONG")

\* 300 rising closes analysed with the default configuration: the RSI is 100 and the
\* list holds both signals
C25_Witness ==
    /\ Computed_ok /\ Len(price_data) = 300 /\ StrictlyIncreasing(price_data)
    /\ analyzer.config = EmptyConfig
    /\ indicators.rsi = Int2F(100)
    /\ TrendIs("STRONG_BULLISH", 90)
    /\ sigStatus = "ok"
    /\ HasSignal("SELL", "RSI", "MEDIUM")
    /\ HasSignal("BUY", "TREND", "STRONG")

AnalyzedAlone(t) ==
    IF Len(provider[t]) = 0 THEN TechnicalIndicators
    ELSE _calculate_all_indicators(NewAnalyzer(analyzer.config), provider[t])

\* C24: no step changes the fields of the constructed analyzer or the series held
\* for any ticker; generate_signals leaves the TechnicalIndicators it is given as
\* they were; and every analyze(t), wherever it stands among the calls for other
\* tickers, returns what analyze(t) returns on a fresh analyzer of the same
\* configuration
C24_Stateless ==
    [][/\ analyzer.constructed => analyzer' = analyzer
       /\ provider' = provider
       /\ log' # log =>
             /\ price_data' = provider[ticker']
             /\ log'[Len(log')].ticker = ticker'
             /\ log'[Len(log')].indicators = AnalyzedAlone(ticker')
             /\ indicators' = AnalyzedAlone(ticker')
       /\ (technical' # technical \/ sigStatus' # sigStatus \/ signals' # signals) =>
             /\ technical' = indicators
             /\ indicators' = indicators]_vars

\* three calls alternating between two tickers with different series, followed by
\* generate_signals on the last result
C24_Witness ==
    /\ Len(log) = 3
    /\ log[1].ticker # log[2].ticker /\ log[2].ticker # log[3].ticker
    /\ provider[log[1].ticker] # provider[log[2].ticker]
    /\ log[2].status = "ok" /\ log[3].status = "ok"
    /\ log[3].indicators = indicators
    /\ sigStatus = "ok" /\ technical = indicators
    /\ IsNum(indicators.rsi)

\* an analyze_stock call returns in this step
StockCallStep == clock' = clock + 1

\* the ticker and day of the call that returns in this step
CalledKey == <<appCall'.ticker, today>>

\* with caching enabled the cache holds, for each ticker and day, exactly the latest
\* result computed successfully since the last clear_cache, and nothing else
CachePerKey ==
    app.cache_enabled =>
        /\ DOMAIN app._cache \subseteq Keys
        /\ \A k \in Keys :
              IF successes[k] = <<>> THEN k \notin DOMAIN app._cache
              ELSE /\ k \in DOMAIN app._cache
                   /\ app._cache[k] = successes[k][Len(successes[k])]
                   /\ app._cache[k].ticker = k[1]

====
